---- MODULE Spec2Model ----
(***************************************************************************)
(* Model of backend/app.py: the account lifecycle (register, confirm,      *)
(* login) over the users table and the itsdangerous timed signer.          *)
(* Each request handler runs in its own thread; every db_query/db_execute  *)
(* call opens its own connection and commits, so one database call is one  *)
(* atomic step and handlers interleave between their database calls.       *)
(* Strings are sequences of one-character strings.                         *)
(***************************************************************************)
EXTENDS Integers, Sequences, FiniteSets, TLC

(* ------------------------------ bounds --------------------------------- *)
NumProcs == 2
MaxSessions == 1

Procs == 1..NumProcs

(* --------------------------- program constants ------------------------- *)
MAX_AGE == 172800
SECRET_KEY == "dev-secret-change-this"

(* ------------------------------ inputs --------------------------------- *)
None == <<"None">>
WrongKey == "other-secret"
Salt == "s1"
NameInputs == { <<" ", "n">>, None }
EmailInputs == { <<"a">>, <<"A", " ">>, <<" ">> }
PasswordInputs == { <<" ", "p">>, <<"q">>, <<" ">> }
Instants == { 0, 172800, 172801 }

\* a second address, for the runs with two accounts
EmailInputs2 == { <<"a">>, <<"B", " ">> }
NameInputs2 == { <<" ", "n">>, <<"m">> }
RegPasswords2 == { <<" ", "p">> }
LoginPasswords2 == { <<"p">>, <<"q">> }

(* ----------------------------- str methods ----------------------------- *)
IsSpace(c) == c = " "

RECURSIVE LStrip(_)
LStrip(s) == IF s = <<>> THEN s
             ELSE IF IsSpace(Head(s)) THEN LStrip(Tail(s)) ELSE s

RECURSIVE RStrip(_)
RStrip(s) == IF s = <<>> THEN s
             ELSE IF IsSpace(s[Len(s)]) THEN RStrip(SubSeq(s, 1, Len(s) - 1)) ELSE s

Strip(s) == RStrip(LStrip(s))

LowerChar(c) == CASE c = "A" -> "a"
                  [] c = "B" -> "b"
                  [] OTHER -> c

Lower(s) == [i \in 1..Len(s) |-> LowerChar(s[i])]

\* (x or '')
OrEmpty(x) == IF x = None \/ x = <<>> THEN <<>> ELSE x

(* ------------------------- werkzeug.security --------------------------- *)
generate_password_hash(password) == [salt |-> Salt, h |-> <<Salt, password>>]

check_password_hash(pwhash, password) == pwhash.h = <<pwhash.salt, password>>

(* --------------------- itsdangerous timed serializer ------------------- *)
Signature(key, payload, ts) == <<key, payload, ts>>

Dumps(payload, t) == [payload |-> payload, ts |-> t,
                      sig |-> Signature(SECRET_KEY, payload, t)]

\* the token carries the tag the signer computes for its payload and timestamp
ValidlySigned(token) == token.sig = <<SECRET_KEY, token.payload, token.ts>>

EmptyToken == [payload |-> [email |-> <<>>], ts |-> 0, sig |-> <<>>]

\* variant: the age test written with >= (a token is refused at exactly max_age)
LoadsOffByOne(token, maxAge, t) ==
    IF token.sig # Signature(SECRET_KEY, token.payload, token.ts)
       THEN "BadSignature"
    ELSE IF t - token.ts >= maxAge THEN "SignatureExpired"
    ELSE "ok"

\* variant: loads called without max_age
LoadsNoMaxAge(token, maxAge, t) ==
    IF token.sig # Signature(SECRET_KEY, token.payload, token.ts)
       THEN "BadSignature"
    ELSE "ok"

\* serializer.loads(token, max_age): the signature is checked before the age
Loads(token, maxAge, t) ==
    IF token.sig # Signature(SECRET_KEY, token.payload, token.ts)
       THEN "BadSignature"
    ELSE IF t - token.ts > maxAge THEN "SignatureExpired"
    ELSE "ok"


(* ------------------------------- state --------------------------------- *)
VARIABLES
    users,     \* the users table: rows in insertion order, row i has id i
    now,       \* the wall clock, in seconds
    minted,    \* every token serializer.dumps has returned so far
    pc,        \* per handler thread: where it stands in its handler
    loc,       \* per handler thread: the handler's local variables
    last,      \* the most recently returned response, with its request
    newly,     \* history: per account id, how many "Cuenta confirmada correctamente" were returned
    okWith,    \* history: the tokens some confirm call has answered 200 to
    txs,       \* the transactions table: rows in insertion order, row i has id i
    lastL      \* the most recently returned response of a ledger endpoint, with its request

vars == <<users, now, minted, pc, loc, last, newly, okWith, txs, lastL>>

accountVars == <<users, now, minted, pc, loc, last, newly, okWith>>
ledgerVars == <<txs, lastL>>

NoLoc == [name |-> <<>>, email |-> <<>>, ph |-> generate_password_hash(<<>>),
          created |-> 0, uid |-> 0, token |-> EmptyToken, age |-> 0, after |-> FALSE]

NoLast == [op |-> "none", resp |-> [status |-> 0]]

NormEmails == { Lower(Strip(OrEmpty(e))) : e \in EmailInputs \cup EmailInputs2 } \ { <<>> }
MaxRows == Cardinality(NormEmails)

\* jsonify({'error': msg}), status
Err(status, msg) == [status |-> status, error |-> msg]

\* db_query('SELECT ... FROM users WHERE email=?')
FindByEmail(U, email) == { i \in 1..Len(U) : U[i].email = email }

\* rows[0]
FirstRow(rows) == CHOOSE i \in rows : \A j \in rows : i <= j

IsSession(t) == "uid" \in DOMAIN t.payload
SessionTokens(M) == { t \in M : IsSession(t) }

Init ==
    /\ users = <<>>
    /\ now = 0
    /\ minted = {}
    /\ pc = [p \in Procs |-> "idle"]
    /\ loc = [p \in Procs |-> NoLoc]
    /\ last = NoLast
    /\ newly = [i \in 1..MaxRows |-> 0]
    /\ okWith = {}
    /\ txs = <<>>
    /\ lastL = [op |-> "none", resp |-> [status |-> 0]]

(* ------------------------------ register ------------------------------- *)
RegName(raw) == Strip(OrEmpty(raw))
RegEmail(raw) == Lower(Strip(OrEmpty(raw)))
\* variant: the password taken without strip()
RegPasswordNoStrip(raw) == OrEmpty(raw)

RegPassword(raw) == Strip(OrEmpty(raw))

\* lines 94-109: validation, the pre-insert lookup, the hash and the timestamp
RegisterCheck(p, name, email, password) ==
    /\ pc[p] = "idle"
    /\ LET n == RegName(name)
           e == RegEmail(email)
           w == RegPassword(password)
           req == [email |-> e]
       IN  IF n = <<>> \/ e = <<>> \/ w = <<>>
             THEN /\ last' = [op |-> "register", req |-> req, existed |-> FALSE,
                              resp |-> Err(400, "name, email y password son requeridos")]
                  /\ UNCHANGED <<pc, loc>>
           ELSE IF FindByEmail(users, e) # {}
             THEN /\ last' = [op |-> "register", req |-> req, existed |-> TRUE,
                              resp |-> Err(409, "El email ya esta registrado")]
                  /\ UNCHANGED <<pc, loc>>
           ELSE /\ pc' = [pc EXCEPT ![p] = "reg_insert"]
                /\ loc' = [loc EXCEPT ![p] = [NoLoc EXCEPT !.name = n, !.email = e,
                                 !.ph = generate_password_hash(w), !.created = now]]
                /\ UNCHANGED last
    /\ UNCHANGED <<users, now, minted, newly, okWith>>
    /\ UNCHANGED ledgerVars

\* variant: the email column declared without UNIQUE
UniqueNotEnforced(U, email) == FALSE

\* the UNIQUE constraint on users.email (line 55)
UniqueViolated(U, email) == FindByEmail(U, email) # {}

\* the response to a failed INSERT (lines 116-117)
InsertFailed == Err(500, "UNIQUE constraint failed: users.email")

\* lines 111-126: the INSERT, then the confirmation token
RegisterInsert(p) ==
    /\ pc[p] = "reg_insert"
    /\ LET l == loc[p]
           req == [email |-> l.email]
       IN
       IF UniqueViolated(users, l.email)
         THEN /\ last' = [op |-> "register", req |-> req, existed |-> TRUE,
                          resp |-> InsertFailed]
              /\ UNCHANGED <<users, minted>>
       ELSE LET token == Dumps([email |-> l.email], now) IN
            /\ users' = Append(users, [id |-> Len(users) + 1, name |-> l.name,
                                       email |-> l.email, password_hash |-> l.ph,
                                       confirmed |-> FALSE, created_at |-> l.created])
            /\ minted' = minted \cup {token}
            /\ last' = [op |-> "register", req |-> req, existed |-> FALSE,
                        resp |-> [status |-> 201,
                                  message |-> "Usuario creado. Enviar email de confirmacion.",
                                  token |-> token]]
    /\ pc' = [pc EXCEPT ![p] = "idle"]
    /\ loc' = [loc EXCEPT ![p] = NoLoc]
    /\ UNCHANGED <<now, newly, okWith>>
    /\ UNCHANGED ledgerVars

(* ------------------------------- confirm ------------------------------- *)
\* what a caller without the secret can make of a token it holds
Tampered(t, e, time) ==
    { [t EXCEPT !.ts = time], [t EXCEPT !.payload = [email |-> e]] } \ {t}

Forged(e, time) ==
    [payload |-> [email |-> e], ts |-> time, sig |-> Signature(WrongKey, [email |-> e], time)]

TokenInputs(Emails) ==
    LET norm == { Lower(Strip(OrEmpty(e))) : e \in Emails } \ { <<>> } IN
    minted \cup {EmptyToken}
           \cup { Forged(e, now) : e \in norm }
           \cup UNION { Tampered(t, e, now) : t \in minted, e \in norm }

\* variant: the email looked for under a key the payload does not have
ConfirmEmailNoClaim(payload) == Lower(OrEmpty(None))

ConfirmEmail(payload) == Lower(OrEmpty(payload.email))

\* lines 132-151: the token check, the lookup, and the answers that need no write
ConfirmCheck(p, token) ==
    /\ pc[p] = "idle"
    /\ LET verdict == Loads(token, MAX_AGE, now)
           email == ConfirmEmail(token.payload)
           rows == FindByEmail(users, email)
           done(r, u) == [op |-> "confirm",
                          token |-> IF verdict = "BadSignature" THEN EmptyToken ELSE token,
                          presented |-> token # EmptyToken,
                          signed |-> ValidlySigned(token),
                          age |-> now - token.ts, uid |-> u, first |-> token \notin okWith,
                          after |-> token \in okWith, resp |-> r]
       IN  IF token = EmptyToken
             THEN /\ last' = done(Err(400, "token requerido"), 0)
                  /\ UNCHANGED <<pc, loc, okWith>>
           ELSE IF verdict = "SignatureExpired"
             THEN /\ last' = done(Err(400, "Token expirado"), 0)
                  /\ UNCHANGED <<pc, loc, okWith>>
           ELSE IF verdict = "BadSignature"
             THEN /\ last' = done(Err(400, "Token invalido"), 0)
                  /\ UNCHANGED <<pc, loc, okWith>>
           ELSE IF rows = {}
             THEN /\ last' = done(Err(404, "Usuario no encontrado"), 0)
                  /\ UNCHANGED <<pc, loc, okWith>>
           ELSE IF users[FirstRow(rows)].confirmed
             THEN /\ last' = done([status |-> 200, message |-> "Cuenta ya estaba confirmada"],
                                  users[FirstRow(rows)].id)
                  /\ okWith' = okWith \cup {token}
                  /\ UNCHANGED <<pc, loc>>
           ELSE /\ pc' = [pc EXCEPT ![p] = "conf_update"]
                /\ loc' = [loc EXCEPT ![p] = [NoLoc EXCEPT !.uid = users[FirstRow(rows)].id,
                                 !.token = token,
                                 !.age = now - token.ts, !.after = token \in okWith]]
                /\ UNCHANGED <<last, okWith>>
    /\ UNCHANGED <<users, now, minted, newly>>
    /\ UNCHANGED ledgerVars

\* variant: the UPDATE never committed
MarkConfirmedLost(U, uid) == U

\* UPDATE users SET confirmed=1 WHERE id=?
MarkConfirmed(U, uid) ==
    [i \in 1..Len(U) |-> IF U[i].id = uid THEN [U[i] EXCEPT !.confirmed = TRUE] ELSE U[i]]

\* lines 153-154
ConfirmUpdate(p) ==
    /\ pc[p] = "conf_update"
    /\ LET l == loc[p] IN
       /\ users' = MarkConfirmed(users, l.uid)
       /\ last' = [op |-> "confirm", token |-> l.token, presented |-> TRUE,
                   signed |-> ValidlySigned(l.token), age |-> l.age, uid |-> l.uid, first |-> l.token \notin okWith,
                   after |-> l.after,
                   resp |-> [status |-> 200, message |-> "Cuenta confirmada correctamente"]]
       /\ newly' = [newly EXCEPT ![l.uid] = @ + 1]
       /\ okWith' = okWith \cup {l.token}
    /\ pc' = [pc EXCEPT ![p] = "idle"]
    /\ loc' = [loc EXCEPT ![p] = NoLoc]
    /\ UNCHANGED <<now, minted>>
    /\ UNCHANGED ledgerVars

(* -------------------------------- login -------------------------------- *)
\* variant: the login email trimmed but not lower-cased
LoginEmailNoLower(raw) == Strip(OrEmpty(raw))

LoginEmail(raw) == Lower(Strip(OrEmpty(raw)))
LoginPassword(raw) == Strip(OrEmpty(raw))

\* variant: an unknown email answered like confirm answers it
NoSuchUserTold == Err(404, "Usuario no encontrado")

\* line 169: no row for the email
NoSuchUser == Err(401, "Credenciales invalidas")

\* line 173: the password does not match the stored hash
BadPassword == Err(401, "Credenciales invalidas")

\* variant: the confirmed flag tested before the password
LoginRowFlagFirst(row, e, w, t) ==
    IF ~row.confirmed THEN Err(403, "Correo no confirmado")
    ELSE IF ~check_password_hash(row.password_hash, w) THEN BadPassword
    ELSE [status |-> 200, message |-> "ok", name |-> row.name, email |-> e,
          session_token |-> Dumps([uid |-> row.id, email |-> e], t)]

\* variant: the confirmed flag not tested
LoginRowNoFlag(row, e, w, t) ==
    IF ~check_password_hash(row.password_hash, w) THEN BadPassword
    ELSE [status |-> 200, message |-> "ok", name |-> row.name, email |-> e,
          session_token |-> Dumps([uid |-> row.id, email |-> e], t)]

\* lines 171-180: the checks on the row found, then the session token
LoginRow(row, e, w, t) ==
    IF ~check_password_hash(row.password_hash, w) THEN BadPassword
    ELSE IF ~row.confirmed THEN Err(403, "Correo no confirmado")
    ELSE [status |-> 200, message |-> "ok", name |-> row.name, email |-> e,
          session_token |-> Dumps([uid |-> row.id, email |-> e], t)]

\* lines 160-180, as a function of the table, the clock and the request
LoginResponse(U, t, email, password) ==
    LET e == LoginEmail(email)
        w == LoginPassword(password)
        rows == FindByEmail(U, e)
    IN  IF e = <<>> \/ w = <<>> THEN Err(400, "email y password son requeridos")
        ELSE IF rows = {} THEN NoSuchUser
        ELSE LoginRow(U[FirstRow(rows)], e, w, t)

Login(p, email, password) ==
    /\ pc[p] = "idle"
    /\ LET r == LoginResponse(users, now, email, password) IN
       /\ r.status = 200 =>
             \/ r.session_token \in minted
             \/ Cardinality(SessionTokens(minted)) < MaxSessions
       /\ last' = [op |-> "login", req |-> [email |-> email, password |-> password],
                   resp |-> r]
       /\ minted' = IF r.status = 200 THEN minted \cup {r.session_token} ELSE minted
    /\ UNCHANGED <<users, now, pc, loc, newly, okWith>>
    /\ UNCHANGED ledgerVars

(* -------------------------------- clock -------------------------------- *)
Tick(t) ==
    /\ t > now
    /\ now' = t
    /\ UNCHANGED <<users, minted, pc, loc, last, newly, okWith>>
    /\ UNCHANGED ledgerVars

Requests(Names, Emails, RegPasswords, LoginPasswords) ==
    \/ \E p \in Procs, n \in Names, e \in Emails, w \in RegPasswords :
          RegisterCheck(p, n, e, w)
    \/ \E p \in Procs : RegisterInsert(p)
    \/ \E p \in Procs, t \in TokenInputs(Emails) : ConfirmCheck(p, t)
    \/ \E p \in Procs : ConfirmUpdate(p)
    \/ \E p \in Procs, e \in Emails, w \in LoginPasswords : Login(p, e, w)

\* one address in several spellings, three instants around the 48 h limit
Next ==
    \/ Requests(NameInputs, EmailInputs, PasswordInputs, PasswordInputs)
    \/ \E t \in Instants : Tick(t)

Spec == Init /\ [][Next]_vars

\* two addresses, the clock standing still
Next2 == Requests(NameInputs2, EmailInputs2, RegPasswords2, LoginPasswords2)

Spec2 == Init /\ [][Next2]_vars


(***************************************************************************)
(*                                Ledger                                   *)
(***************************************************************************)

(* ------------------------------ bounds --------------------------------- *)
\* rows the ledger may hold before inserts are no longer explored
MaxTx == 3
\* the LIMIT of the unfiltered query, 1000 in the source, scaled to the ledger
QueryLimit == 2
\* significant bits of a REAL / float, 53 in the build, scaled to the amounts
MantissaBits == 3

(* -------------------------- binary floating point ---------------------- *)
Abs(x) == IF x < 0 THEN 0 - x ELSE x

RECURSIVE Pow2(_)
Pow2(n) == IF n = 0 THEN 1 ELSE 2 * Pow2(n - 1)

\* the spacing of the representable numbers around magnitude a
RECURSIVE Ulp(_, _)
Ulp(a, u) == IF a < Pow2(MantissaBits) * u THEN u ELSE Ulp(a, 2 * u)

\* round to nearest, ties to even; the exponent range is not limited
Fl(x) ==
    LET a == Abs(x)
        u == Ulp(a, 1)
        q == a \div u
        r == a % u
        m == IF 2 * r < u THEN q
             ELSE IF 2 * r > u THEN q + 1
             ELSE IF q % 2 = 0 THEN q ELSE q + 1
    IN  IF x < 0 THEN 0 - (m * u) ELSE m * u

FAdd(x, y) == Fl(x + y)
FSub(x, y) == Fl(x - y)
\* a product with 0.25 only moves the exponent: it is exact, kept as a ratio
Quarter(x) == [num |-> x, den |-> 4]
Zero == [num |-> 0, den |-> 1]

(* --------------------------- request values ---------------------------- *)
Num(v) == [k |-> "num", n |-> v]
Str(s) == [k |-> "str", s |-> s]

\* dict.get(key, default)
Get(data, key, default) == IF key \in DOMAIN data THEN data[key] ELSE default

Digits == { "0", "1", "2", "3", "4", "5", "6", "7", "8", "9" }
DigitValue(c) ==
    CASE c = "0" -> 0 [] c = "1" -> 1 [] c = "2" -> 2 [] c = "3" -> 3
      [] c = "4" -> 4 [] c = "5" -> 5 [] c = "6" -> 6 [] c = "7" -> 7
      [] c = "8" -> 8 [] c = "9" -> 9

RECURSIVE DecimalValue(_, _)
DecimalValue(s, acc) ==
    IF s = <<>> THEN acc
    ELSE DecimalValue(Tail(s), 10 * acc + DigitValue(Head(s)))

\* float(x): a number converts, a string is parsed after stripping, and a
\* string that is no numeral raises ValueError
float(x) ==
    IF x.k = "num" THEN [ok |-> TRUE, v |-> Fl(x.n)]
    ELSE LET s == Strip(x.s)
         IN  IF s # <<>> /\ \A i \in 1..Len(s) : s[i] \in Digits
             THEN [ok |-> TRUE, v |-> Fl(DecimalValue(s, 0))]
             ELSE [ok |-> FALSE, exc |-> "ValueError"]

\* `not x` for a str or None
Falsy(x) == x = None \/ x = <<>>

(* ------------------------------ TEXT order ----------------------------- *)
CodePoint(c) == IF c = "-" THEN 45 ELSE 48 + DigitValue(c)

\* BINARY collation: bytewise, a proper prefix sorts first
RECURSIVE TextLess(_, _)
TextLess(a, b) ==
    IF b = <<>> THEN FALSE
    ELSE IF a = <<>> THEN TRUE
    ELSE IF Head(a) = Head(b) THEN TextLess(Tail(a), Tail(b))
    ELSE CodePoint(Head(a)) < CodePoint(Head(b))

\* variant: the upper end left out of the range
BetweenOpenEnd(x, lo, hi) == ~TextLess(x, lo) /\ TextLess(x, hi)

\* x BETWEEN lo AND hi
Between(x, lo, hi) == ~TextLess(x, lo) /\ ~TextLess(hi, x)

(* ------------------------------- inputs -------------------------------- *)
D9 == <<"9">>
D10 == <<"1", "0">>
venta == <<"v", "e", "n", "t", "a">>
compra == <<"c", "o", "m", "p", "r", "a">>
gasto == <<"g", "a", "s", "t", "o">>
sale == <<"s", "a", "l", "e">>
General == <<"G", "e", "n", "e", "r", "a", "l">>

\* JSON bodies of POST /api/transaction
Bodies ==
    { [date |-> D10, type |-> venta, amount |-> Num(8)],
      [date |-> D10, type |-> compra, amount |-> Num(7)],
      [date |-> D10, type |-> gasto, amount |-> Num(2)],
      [date |-> D10, type |-> venta, amount |-> Str(<<"7">>)],
      [date |-> D10, type |-> sale, amount |-> Num(7)],
      [date |-> D9, type |-> venta, amount |-> Num(2)],
      [date |-> D9, type |-> gasto],
      [date |-> D9, type |-> compra, amount |-> Num(0 - 2)],
      [type |-> venta, amount |-> Num(7)],
      [date |-> D10, type |-> <<>>],
      [date |-> D10, type |-> venta, amount |-> Str(<<"x">>)],
      [date |-> <<>>, type |-> venta, amount |-> Str(<<"x">>)] }

\* values of the date, start and end query parameters; None is an absent one
DateArgs == { None, D9, D10 }

(* --------------------------- add_transaction --------------------------- *)
\* an exception no handler catches: Flask answers 500
Unhandled(exc) == [status |-> 500, error |-> exc]

\* variant: the id numbered within the rows of the date
NewRowIdPerDate(T, date, typ, category, amount, client, note) ==
    [id |-> Len(SelectSeq(T, LAMBDA r : r.date = date)) + 1,
     date |-> date, type |-> typ, category |-> category,
     amount |-> amount, client |-> client, note |-> note]

NewRow(T, date, typ, category, amount, client, note) ==
    [id |-> Len(T) + 1, date |-> date, type |-> typ, category |-> category,
     amount |-> amount, client |-> client, note |-> note]

add_transaction(data) ==
    LET date == Get(data, "date", None)
        typ == Get(data, "type", None)
        category == Get(data, "category", General)
        amount == float(Get(data, "amount", Num(0)))
        client == Get(data, "client", <<>>)
        note == Get(data, "note", <<>>)
    IN  /\ IF ~amount.ok
           THEN /\ lastL' = [op |-> "add_transaction", req |-> data,
                             resp |-> Unhandled(amount.exc)]
                /\ UNCHANGED txs
           ELSE IF Falsy(date) \/ Falsy(typ)
           THEN /\ lastL' = [op |-> "add_transaction", req |-> data,
                             resp |-> Err(400, "date y type requeridos")]
                /\ UNCHANGED txs
           ELSE /\ Len(txs) < MaxTx
                /\ txs' = Append(txs, NewRow(txs, date, typ, category,
                                             amount.v, client, note))
                /\ lastL' = [op |-> "add_transaction", req |-> data,
                             resp |-> [status |-> 201, message |-> "ok"]]
        /\ UNCHANGED accountVars

(* ------------------------------- SELECT -------------------------------- *)
Range(s) == { s[i] : i \in 1..Len(s) }

RECURSIVE Reverse(_)
Reverse(s) == IF s = <<>> THEN <<>> ELSE Append(Reverse(Tail(s)), Head(s))

\* ORDER BY date DESC, id DESC
DateDescIdDesc(r, q) ==
    \/ TextLess(q.date, r.date)
    \/ r.date = q.date /\ r.id > q.id

\* ORDER BY date, id
DateId(r, q) ==
    \/ TextLess(r.date, q.date)
    \/ r.date = q.date /\ r.id < q.id

RECURSIVE OrderByDateDescIdDesc(_)
OrderByDateDescIdDesc(S) ==
    IF S = {} THEN <<>>
    ELSE LET r == CHOOSE r \in S : \A q \in S \ {r} : DateDescIdDesc(r, q)
         IN  <<r>> \o OrderByDateDescIdDesc(S \ {r})

RECURSIVE OrderByDateId(_)
OrderByDateId(S) ==
    IF S = {} THEN <<>>
    ELSE LET r == CHOOSE r \in S : \A q \in S \ {r} : DateId(r, q)
         IN  <<r>> \o OrderByDateId(S \ {r})

\* variant: the last n rows of the ordering kept
LimitTail(s, n) == IF Len(s) <= n THEN s ELSE SubSeq(s, Len(s) - n + 1, Len(s))

\* LIMIT n
Limit(s, n) == IF Len(s) <= n THEN s ELSE SubSeq(s, 1, n)

\* WHERE date=?, in id order
OnDate(T, date) == SelectSeq(T, LAMBDA r : r.date = date)

\* variant: only the lower end of the range tested
InRangeNoEnd(T, start, end) == SelectSeq(T, LAMBDA r : ~TextLess(r.date, start))

\* WHERE date BETWEEN ? AND ?, in id order
InRange(T, start, end) == SelectSeq(T, LAMBDA r : Between(r.date, start, end))

\* SUM(amount) of a group: a double accumulator, the rows added in id order
RECURSIVE SumAmount(_, _)
SumAmount(rows, acc) ==
    IF rows = <<>> THEN acc
    ELSE SumAmount(Tail(rows), FAdd(acc, Head(rows).amount))

\* variant: the dict built from the groups keeps one row's amount per type
GroupByTypeLastRow(rows) ==
    [t \in { r.type : r \in Range(rows) } |->
        LET g == SelectSeq(rows, LAMBDA r : r.type = t) IN g[Len(g)].amount]

\* SELECT type, SUM(amount) ... GROUP BY type, as the dict res
GroupByType(rows) ==
    [t \in { r.type : r \in Range(rows) } |->
        SumAmount(SelectSeq(rows, LAMBDA r : r.type = t), 0)]

(* --------------------------- get_transactions -------------------------- *)
TransactionsResponse(T, date) ==
    IF ~Falsy(date)
    THEN [status |-> 200, rows |-> Reverse(OnDate(T, date))]
    ELSE [status |-> 200,
          rows |-> Limit(OrderByDateDescIdDesc(Range(T)), QueryLimit)]

get_transactions(date) ==
    /\ lastL' = [op |-> "get_transactions", req |-> [date |-> date],
                 resp |-> TransactionsResponse(txs, date)]
    /\ UNCHANGED txs
    /\ UNCHANGED accountVars

(* ------------------------------- summary ------------------------------- *)
\* variant: gastos read from the 'compra' group
SummaryGastosFromCompra(T, date) ==
    IF Falsy(date) THEN Err(400, "date required")
    ELSE LET res == GroupByType(OnDate(T, date))
             ventas == Get(res, venta, 0)
             compras == Get(res, compra, 0)
             gastos == Get(res, compra, 0)
             utilidad == FSub(ventas, FAdd(compras, gastos))
         IN  [status |-> 200, ventas |-> ventas, compras |-> compras,
              gastos |-> gastos, utilidad |-> utilidad]

SummaryResponse(T, date) ==
    IF Falsy(date) THEN Err(400, "date required")
    ELSE LET res == GroupByType(OnDate(T, date))
             ventas == Get(res, venta, 0)
             compras == Get(res, compra, 0)
             gastos == Get(res, gasto, 0)
             utilidad == FSub(ventas, FAdd(compras, gastos))
         IN  [status |-> 200, ventas |-> ventas, compras |-> compras,
              gastos |-> gastos, utilidad |-> utilidad]

summary(date) ==
    /\ lastL' = [op |-> "summary", req |-> [date |-> date],
                 resp |-> SummaryResponse(txs, date)]
    /\ UNCHANGED txs
    /\ UNCHANGED accountVars

(* -------------------------------- estado ------------------------------- *)
impuesto_estimado(utilidad_neta) ==
    IF utilidad_neta > 0 THEN Quarter(utilidad_neta) ELSE Zero

EstadoResponse(T, start, end) ==
    IF Falsy(start) \/ Falsy(end) THEN Err(400, "start and end required")
    ELSE LET res == GroupByType(InRange(T, start, end))
             ventas == Get(res, venta, 0)
             compras == Get(res, compra, 0)
             gastos == Get(res, gasto, 0)
             utilidad_bruta == FSub(ventas, compras)
             utilidad_neta == FSub(utilidad_bruta, gastos)
         IN  [status |-> 200, ventas |-> ventas, compras |-> compras,
              gastos |-> gastos, utilidad_bruta |-> utilidad_bruta,
              utilidad_neta |-> utilidad_neta,
              impuesto_estimado |-> impuesto_estimado(utilidad_neta)]

estado(start, end) ==
    /\ lastL' = [op |-> "estado", req |-> [start |-> start, end |-> end],
                 resp |-> EstadoResponse(txs, start, end)]
    /\ UNCHANGED txs
    /\ UNCHANGED accountVars

(* -------------------------------- export ------------------------------- *)
headers == <<"Fecha", "Tipo", "Categoria", "Importe", "Cliente", "Nota">>

Cells(r) == <<r.date, r.type, r.category, r.amount, r.client, r.note>>

ExportResponse(T, start, end) ==
    IF Falsy(start) \/ Falsy(end) THEN Err(400, "start and end required")
    ELSE LET rows == OrderByDateId(Range(InRange(T, start, end)))
         IN  [status |-> 200,
              filename |-> <<"Transacciones_", start, "_to_", end, ".xlsx">>,
              sheet |-> <<headers>> \o [i \in 1..Len(rows) |-> Cells(rows[i])]]

export(start, end) ==
    /\ lastL' = [op |-> "export", req |-> [start |-> start, end |-> end],
                 resp |-> ExportResponse(txs, start, end)]
    /\ UNCHANGED txs
    /\ UNCHANGED accountVars

(* ---------------------------- specification ---------------------------- *)
NextL ==
    \/ \E data \in Bodies : add_transaction(data)
    \/ \E date \in DateArgs : get_transactions(date)
    \/ \E date \in DateArgs : summary(date)
    \/ \E start \in DateArgs, end \in DateArgs : estado(start, end)
    \/ \E start \in DateArgs, end \in DateArgs : export(start, end)

SpecL == Init /\ [][NextL]_vars


(***************************************************************************)
(*                              Properties                                 *)
(***************************************************************************)
Newly == [status |-> 200, message |-> "Cuenta confirmada correctamente"]
Already == [status |-> 200, message |-> "Cuenta ya estaba confirmada"]
NotFound == Err(404, "Usuario no encontrado")
Expired == Err(400, "Token expirado")
Invalid == Err(400, "Token invalido")
Conflict == Err(409, "El email ya esta registrado")

AllEmails == EmailInputs \cup EmailInputs2
AllPasswords == PasswordInputs \cup RegPasswords2 \cup LoginPasswords2

\* some handler takes a step of register: its lookup passes, its insert is
\* attempted, or a register call is answered
RegisterStep ==
    \/ \E p \in Procs : pc[p] = "idle" /\ pc'[p] = "reg_insert"
    \/ \E p \in Procs : pc[p] = "reg_insert" /\ pc'[p] = "idle"
    \/ last' # last /\ last'.op = "register"

\* every row present before the step is present, unchanged, after it
RowsKept == \A i \in 1..Len(users) : i <= Len(users') /\ users'[i] = users[i]

(* C1: the users table never holds two rows whose emails agree up to letter *)
(* case, and no step of a register call, the loser of a check-then-insert   *)
(* race included, changes a row that is already stored.                     *)
C1_OnePerEmail ==
    \A i, j \in 1..Len(users) :
       Lower(users[i].email) = Lower(users[j].email) => i = j

C1_UniqueEmail == [](C1_OnePerEmail) /\ [][RegisterStep => RowsKept]_vars

\* the loser of a race has been answered and the one stored row is the winner's
C1_Witness ==
    /\ last.op = "register" /\ last.existed /\ last.resp = InsertFailed
    /\ Len(users) = 1 /\ users[1].email = last.req.email

(* C2 (as claimed): a register call that finds its email stored when it     *)
(* attempts its insert, or at its lookup, is answered 409 conflict.         *)
C2_AlwaysConflict ==
    (last.op = "register" /\ last.existed) => last.resp.status = 409

(* C3: rows are never removed and keep their id and email; a row is created *)
(* unconfirmed; confirmed never goes back to false; and it goes to true     *)
(* only in the step that answers a confirm call whose token is validly      *)
(* signed, was at most 48 h old when verified and names that row's email.   *)
C3_Step ==
    /\ \A i \in 1..Len(users) :
          /\ i <= Len(users')
          /\ users'[i].id = users[i].id
          /\ users'[i].email = users[i].email
          /\ users[i].confirmed => users'[i].confirmed
          /\ (~users[i].confirmed /\ users'[i].confirmed) =>
                /\ last'.op = "confirm"
                /\ last'.resp = Newly
                /\ ValidlySigned(last'.token)
                /\ last'.age <= MAX_AGE
                /\ last'.token.payload.email = users[i].email
    /\ \A i \in (Len(users) + 1)..Len(users') : ~users'[i].confirmed

C3_ConfirmedMonotonic == [][C3_Step]_vars

\* a confirmed account has since seen a register attempt and is still confirmed
C3_Witness ==
    /\ Len(users) = 1 /\ users[1].confirmed
    /\ last.op = "register" /\ last.resp = Conflict

(* C4: for a confirmation token that is validly signed and at most 48 h old *)
(* when verified: the first confirm call answered for it is answered "newly *)
(* confirmed"; a call that starts after one was answered is answered        *)
(* "already confirmed"; and the account is confirmed after either.          *)
C4_ConfirmIdempotent ==
    (/\ last.op = "confirm" /\ last.presented /\ last.signed
     /\ ~IsSession(last.token) /\ last.age <= MAX_AGE
     /\ last.token \in minted)
    => /\ last.first => last.resp = Newly
       /\ last.after => last.resp = Already
       /\ last.resp \in {Newly, Already}
       /\ \E i \in 1..Len(users) :
             users[i].email = last.token.payload.email /\ users[i].confirmed

\* the second of two calls in sequence has been answered
C4_Witness ==
    /\ last.op = "confirm" /\ last.after /\ last.resp = Already
    /\ ~IsSession(last.token) /\ last.age <= MAX_AGE
    /\ newly[last.uid] = 1

(* C5 (as claimed): per account at most one confirm call is answered        *)
(* "newly confirmed".                                                       *)
C5_NewlyOnce == \A i \in 1..MaxRows : newly[i] <= 1

(* C6: a confirm call on a validly signed token is answered "expired" when  *)
(* the token is more than 172800 s old at verification and passes           *)
(* verification otherwise; a token whose signature does not verify is       *)
(* answered "invalid"; neither answer comes with a change to the table.     *)
C6_Answer ==
    (last.op = "confirm" /\ last.presented) =>
       /\ ~last.signed => last.resp = Invalid
       /\ (last.signed /\ last.age > MAX_AGE) => last.resp = Expired
       /\ (last.signed /\ last.age <= MAX_AGE) => last.resp \in {Newly, Already, NotFound}

C6_Refused ==
    (last' # last /\ last'.op = "confirm" /\ last'.resp \in {Expired, Invalid})
       => users' = users

C6_TokenExpiry == [](C6_Answer) /\ [][C6_Refused]_vars

\* a token verified when exactly 48 h old has confirmed its account
C6_Witness ==
    /\ last.op = "confirm" /\ last.signed /\ last.age = MAX_AGE
    /\ last.resp = Newly


InvalidCredentials == Err(401, "Credenciales invalidas")
NotConfirmed == Err(403, "Correo no confirmado")

\* the normalized form of an address: trimmed and lower-cased
Normalized(e) == Lower(Strip(OrEmpty(e)))
Blank(x) == Strip(OrEmpty(x)) = <<>>
NonEmpty(x) == x # None /\ x # <<>>

\* no account has this address
Unknown(e) == \A i \in 1..Len(users) : users[i].email # Normalized(e)

\* row i is the account of address e and password w verifies against its digest
Verifies(i, e, w) ==
    /\ users[i].email = Normalized(e)
    /\ check_password_hash(users[i].password_hash, Strip(OrEmpty(w)))

\* address e has an account and password w does not verify against its digest
WrongPassword(e, w) ==
    \E i \in 1..Len(users) : users[i].email = Normalized(e) /\ ~Verifies(i, e, w)

(* C7 (as claimed): a login with a non-empty email and a non-empty password *)
(* for an email without an account, or with a password that does not       *)
(* verify, is answered with the one invalid_credentials response.           *)
C7_NonEmptyIndistinguishable ==
    (/\ last.op = "login"
     /\ NonEmpty(last.req.email) /\ NonEmpty(last.req.password)
     /\ Unknown(last.req.email) \/ WrongPassword(last.req.email, last.req.password))
    => last.resp = InvalidCredentials

(* C7 (amended): in every state, for every email and password that are not  *)
(* blank (empty once surrounding whitespace is trimmed), a login for an     *)
(* email without an account and a login with a password that does not       *)
(* verify get the same response, 401 with the same message, whatever the    *)
(* table holds; so does every such login that was answered.                 *)
C7_LoginIndistinguishable ==
    /\ \A e \in AllEmails, w \in AllPasswords :
          (~Blank(e) /\ ~Blank(w) /\ (Unknown(e) \/ WrongPassword(e, w)))
             => LoginResponse(users, now, e, w) = InvalidCredentials
    /\ (/\ last.op = "login"
        /\ ~Blank(last.req.email) /\ ~Blank(last.req.password)
        /\ Unknown(last.req.email) \/ WrongPassword(last.req.email, last.req.password))
       => last.resp = InvalidCredentials

\* both cases are at hand: the last login named a stored account with a wrong
\* password, and an address without an account would be answered the same
C7_Witness ==
    /\ last.op = "login" /\ ~Blank(last.req.password)
    /\ WrongPassword(last.req.email, last.req.password)
    /\ last.resp = InvalidCredentials
    /\ \E i \in 1..Len(users) : users[i].confirmed

C9_SessionsForConfirmed ==
    /\ \A t \in SessionTokens(minted) :
          /\ ValidlySigned(t)
          /\ \E i \in 1..Len(users) :
                /\ users[i].id = t.payload.uid
                /\ users[i].email = t.payload.email
                /\ users[i].confirmed
    /\ (last.op = "login" /\ last.resp.status = 200) =>
          /\ last.resp.session_token \in SessionTokens(minted)
          /\ \E i \in 1..Len(users) :
                /\ Verifies(i, last.req.email, last.req.password)
                /\ users[i].confirmed
                /\ last.resp.session_token.payload = [uid |-> users[i].id, email |-> users[i].email]
                /\ last.resp.name = users[i].name
                /\ last.resp.email = users[i].email

\* the second of two accounts has logged in
C9_Witness ==
    /\ last.op = "login" /\ last.resp.status = 200
    /\ Len(users) = 2 /\ last.resp.session_token.payload.uid = 2
    /\ ~users[1].confirmed

(* C10: once registered, an account is answered not_confirmed at login with *)
(* its password and any spelling of its address until it is confirmed; the  *)
(* first confirm answered for its token, presented within 48 h, is "newly   *)
(* confirmed"; from then on the account stays confirmed and every such      *)
(* login succeeds with a session token.                                     *)
C10_Login ==
    \A i \in 1..Len(users), e \in AllEmails, w \in AllPasswords :
       Verifies(i, e, w) =>
          LET r == LoginResponse(users, now, e, w) IN
          IF users[i].confirmed
             THEN /\ r.status = 200
                  /\ r.session_token = Dumps([uid |-> users[i].id, email |-> users[i].email], now)
             ELSE r = NotConfirmed

C10_Confirm ==
    (/\ last.op = "confirm" /\ last.presented /\ last.signed /\ last.first
     /\ ~IsSession(last.token) /\ last.age <= MAX_AGE
     /\ last.token \in minted)
    => /\ last.resp = Newly
       /\ \E i \in 1..Len(users) :
             users[i].email = last.token.payload.email /\ users[i].confirmed

C10_Stays ==
    \A i \in 1..Len(users) :
       users[i].confirmed =>
          i <= Len(users') /\ users'[i].confirmed /\ users'[i].email = users[i].email
             /\ users'[i].password_hash = users[i].password_hash

C10_ConfirmationActivates == [](C10_Login /\ C10_Confirm) /\ [][C10_Stays]_vars

\* after its confirmation an account has logged in under the upper-case,
\* padded spelling of its address
C10_Witness ==
    /\ last.op = "login" /\ last.resp.status = 200
    /\ last.req.email = <<"A", " ">>
    /\ newly[1] = 1

(***************************************************************************)
(*                         Properties of the ledger                        *)
(***************************************************************************)
OfKind(rows, kind) == SelectSeq(rows, LAMBDA r : r.type = kind)

\* the sum of the amounts as real numbers
RECURSIVE Total(_)
Total(rows) == IF rows = <<>> THEN 0 ELSE Head(rows).amount + Total(Tail(rows))

RECURSIVE SumAbs(_)
SumAbs(rows) == IF rows = <<>> THEN 0 ELSE Abs(Head(rows).amount) + SumAbs(Tail(rows))

\* every partial sum of the amounts is a number the float represents
Exact(rows) == SumAbs(rows) < Pow2(MantissaBits)

Counted == { venta, compra, gasto }
Figure(resp, kind) ==
    CASE kind = venta -> resp.ventas
      [] kind = compra -> resp.compras
      [] kind = gasto -> resp.gastos

\* what GET /api/transactions?date=d returns now
Query(d) == TransactionsResponse(txs, d).rows
CountedRows(rows) == SelectSeq(rows, LAMBDA r : r.type \in Counted)

SummaryAnswered == lastL.op = "summary" /\ ~Falsy(lastL.req.date)

\* C11 as stated: the figures of summary(d) are the sums, as real numbers, of
\* the amounts of the rows of each kind that query(d) returns, and
\* profit = sales - (purchases + expenses).
C11_ExactSums ==
    SummaryAnswered =>
        LET q == Query(lastL.req.date)
            r == lastL.resp
        IN  /\ r.status = 200
            /\ \A k \in Counted : Figure(r, k) = Total(OfKind(q, k))
            /\ r.utilidad = r.ventas - (r.compras + r.gastos)

\* C11 amended: summary(d) never fails for a non-empty d; each figure is the
\* floating-point sum, in id order, of the amounts of the rows of that kind
\* that query(d) returns (all rows of the kind are summed, a kind without rows
\* gives 0, no rows give all zeros); utilidad is the floating-point value of
\* ventas - (compras + gastos); and whenever the absolute amounts involved
\* total less than 2^MantissaBits these are the sums as real numbers.
C11_FloatSums ==
    SummaryAnswered =>
        LET q == Query(lastL.req.date)
            r == lastL.resp
        IN  /\ r.status = 200
            /\ \A k \in Counted :
                 /\ Figure(r, k) = SumAmount(OfKind(Reverse(q), k), 0)
                 /\ Exact(OfKind(q, k)) => Figure(r, k) = Total(OfKind(q, k))
                 /\ OfKind(q, k) = <<>> => Figure(r, k) = 0
            /\ r.utilidad = FSub(r.ventas, FAdd(r.compras, r.gastos))
            /\ Exact(CountedRows(q)) =>
                 r.utilidad = r.ventas - (r.compras + r.gastos)
            /\ q = <<>> => r.ventas = 0 /\ r.compras = 0 /\ r.gastos = 0
                           /\ r.utilidad = 0

\* two sales of 2 on the day asked for, no purchase, a row of another day
C11_Witness ==
    /\ SummaryAnswered
    /\ Len(OfKind(Query(lastL.req.date), venta)) >= 2
    /\ OfKind(Query(lastL.req.date), compra) = <<>>
    /\ Len(Query(lastL.req.date)) < Len(txs)
    /\ lastL.resp.ventas = 4 /\ lastL.resp.compras = 0

purchase == <<"p", "u", "r", "c", "h", "a", "s", "e">>
expense == <<"e", "x", "p", "e", "n", "s", "e">>

Inserted == Len(txs') = Len(txs) + 1
Figures(resp) == <<resp.ventas, resp.compras, resp.gastos>>

\* the figure named by a kind gains the amount, in both reports of the row's
\* date; a row of no named kind leaves both reports as they were
Gains(before, after, row, sales, purchases, expenses) ==
    /\ row.type = sales =>
         Figures(after) = <<FAdd(before.ventas, row.amount), before.compras, before.gastos>>
    /\ row.type = purchases =>
         Figures(after) = <<before.ventas, FAdd(before.compras, row.amount), before.gastos>>
    /\ row.type = expenses =>
         Figures(after) = <<before.ventas, before.compras, FAdd(before.gastos, row.amount)>>
    /\ row.type \notin { sales, purchases, expenses } => after = before

KindStep(sales, purchases, expenses) ==
    Inserted =>
        LET row == txs'[Len(txs')]
            d == row.date
        IN  /\ Gains(SummaryResponse(txs, d), SummaryResponse(txs', d),
                     row, sales, purchases, expenses)
            /\ Gains(EstadoResponse(txs, d, d), EstadoResponse(txs', d, d),
                     row, sales, purchases, expenses)

\* the example of the claim with the amounts scaled: a sale of 8 and an
\* expense of 2 on one day, in the kind strings given
Example(sales, expenses) ==
    (/\ Len(txs) = 2
     /\ { <<r.date, r.type, r.amount>> : r \in Range(txs) }
          = { <<D10, sales, 8>>, <<D10, expenses, 2>> })
    => SummaryResponse(txs, D10) = [status |-> 200, ventas |-> 8, compras |-> 0,
                                    gastos |-> 2, utilidad |-> 6]

\* C12 as stated: the kinds counted are the strings sale, purchase and
\* expense; an inserted row of kind sale adds its amount to the sales figure,
\* purchase to purchases, expense to expenses, in summary and in estado, and a
\* row of any other kind changes no figure.
C12_EnglishKinds == [][KindStep(sale, purchase, expense)]_vars

\* C12 amended: the kinds counted are the strings venta, compra and gasto; an
\* inserted row of kind venta adds its amount to the sales figure (ventas),
\* compra to purchases (compras), gasto to expenses (gastos), in summary and
\* in estado, and a row of any other kind, sale included, changes no figure;
\* a venta of 8 and a gasto of 2 on one day give {8, 0, 2, 6}.
C12_SpanishKinds ==
    /\ [][KindStep(venta, compra, gasto)]_vars
    /\ [](Example(venta, gasto))

\* the example's two rows and a row of kind sale on the same day, summarised
C12_Witness ==
    /\ lastL.op = "summary" /\ lastL.req.date = D10
    /\ { <<r.date, r.type, r.amount>> : r \in Range(txs) }
         = { <<D10, venta, 8>>, <<D10, gasto, 2>>, <<D10, sale, 7>> }
    /\ lastL.resp = [status |-> 200, ventas |-> 8, compras |-> 0,
                     gastos |-> 2, utilidad |-> 6]

\* estado answered for a range of one day
EstadoOfDay ==
    /\ lastL.op = "estado"
    /\ ~Falsy(lastL.req.start)
    /\ lastL.req.start = lastL.req.end

AllZero(e, s) ==
    /\ Figures(e) = <<0, 0, 0>> /\ e.utilidad_bruta = 0 /\ e.utilidad_neta = 0
    /\ e.impuesto_estimado.num = 0
    /\ Figures(s) = <<0, 0, 0>> /\ s.utilidad = 0

\* C13 as stated: estado(d, d) reports the sales, purchases and expenses of
\* summary(d), its net profit equals the profit of summary(d), its gross
\* profit is sales - purchases, and without counted rows on the day every
\* field of both reports is 0.
C13_NetEqualsProfit ==
    EstadoOfDay =>
        LET e == lastL.resp
            s == SummaryResponse(txs, lastL.req.start)
        IN  /\ Figures(e) = Figures(s)
            /\ e.utilidad_neta = s.utilidad
            /\ e.utilidad_bruta = e.ventas - e.compras
            /\ CountedRows(Query(lastL.req.start)) = <<>> => AllZero(e, s)

\* C13 amended: estado(d, d) reports the sales, purchases and expenses of
\* summary(d); its gross profit is the floating-point ventas - compras and its
\* net profit the floating-point gross - gastos, while the profit of
\* summary(d) is the floating-point ventas - (compras + gastos); net profit
\* and profit are equal, and gross profit is exactly sales - purchases,
\* whenever the absolute amounts of the day's counted rows total less than
\* 2^MantissaBits; without counted rows every field of both reports is 0.
C13_EqualWhenExact ==
    EstadoOfDay =>
        LET e == lastL.resp
            s == SummaryResponse(txs, lastL.req.start)
            day == CountedRows(Query(lastL.req.start))
        IN  /\ Figures(e) = Figures(s)
            /\ e.utilidad_bruta = FSub(e.ventas, e.compras)
            /\ e.utilidad_neta = FSub(e.utilidad_bruta, e.gastos)
            /\ s.utilidad = FSub(s.ventas, FAdd(s.compras, s.gastos))
            /\ Exact(day) => /\ e.utilidad_neta = s.utilidad
                             /\ e.utilidad_bruta = e.ventas - e.compras
            /\ day = <<>> => AllZero(e, s)

\* a day with a sale, a purchase and an expense whose arithmetic is exact,
\* other rows outside the day, and the two reports agreeing on a profit
C13_Witness ==
    /\ EstadoOfDay
    /\ \A k \in Counted : OfKind(Query(lastL.req.start), k) # <<>>
    /\ Exact(CountedRows(Query(lastL.req.start)))
    /\ lastL.resp.utilidad_neta = SummaryResponse(txs, lastL.req.start).utilidad
    /\ lastL.resp.utilidad_neta > 0

\* a <= b in the lexicographic order of the characters: a is a prefix of b, or
\* the first position where they differ holds the smaller character in a
LexLeq(a, b) ==
    \/ Len(a) <= Len(b) /\ \A j \in 1..Len(a) : a[j] = b[j]
    \/ \E i \in 1..Len(a) :
          /\ i <= Len(b)
          /\ \A j \in 1..(i - 1) : a[j] = b[j]
          /\ CodePoint(a[i]) < CodePoint(b[i])

\* a tax in quarters of the unit of the amounts
Quarters(t) == t.num * (4 \div t.den)

EstadoAnswered ==
    lastL.op = "estado" /\ ~Falsy(lastL.req.start) /\ ~Falsy(lastL.req.end)

\* C14: estado(start, end) sums exactly the rows whose date d satisfies
\* start <= d <= end lexicographically, both ends included; start > end gives
\* all zeros; the estimated tax is a quarter of the net profit when that is
\* positive and 0 otherwise, so never negative.
C14_InclusiveRange ==
    EstadoAnswered =>
        LET start == lastL.req.start
            end == lastL.req.end
            e == lastL.resp
            rows == SelectSeq(txs, LAMBDA r : LexLeq(start, r.date) /\ LexLeq(r.date, end))
        IN  /\ e.status = 200
            /\ \A k \in Counted : Figure(e, k) = SumAmount(OfKind(rows, k), 0)
            /\ ~LexLeq(start, end) =>
                 /\ Figures(e) = <<0, 0, 0>>
                 /\ e.utilidad_bruta = 0 /\ e.utilidad_neta = 0
                 /\ Quarters(e.impuesto_estimado) = 0
            /\ e.utilidad_neta > 0 => Quarters(e.impuesto_estimado) = e.utilidad_neta
            /\ e.utilidad_neta <= 0 => Quarters(e.impuesto_estimado) = 0
            /\ Quarters(e.impuesto_estimado) >= 0

\* a range of two different dates with counted rows on its first and on its
\* last day, a positive net profit and its quarter as the tax
C14_Witness ==
    /\ EstadoAnswered
    /\ lastL.req.start # lastL.req.end
    /\ CountedRows(OnDate(txs, lastL.req.start)) # <<>>
    /\ CountedRows(OnDate(txs, lastL.req.end)) # <<>>
    /\ lastL.resp.utilidad_neta > 0
    /\ lastL.resp.impuesto_estimado = [num |-> lastL.resp.utilidad_neta, den |-> 4]

InsertAnswered == lastL.op = "add_transaction"

\* C15 as stated: insert has no failure but the validation of date and kind: a
\* request with a non-empty date and kind succeeds and has appended its row,
\* an absent or unparsable amount stored as 0, and a request with an empty
\* date or kind is answered with the validation failure.
C15_OnlyValidationFails ==
    InsertAnswered =>
        LET date == Get(lastL.req, "date", None)
            typ == Get(lastL.req, "type", None)
            parsed == float(Get(lastL.req, "amount", Num(0)))
        IN  IF Falsy(date) \/ Falsy(typ)
            THEN lastL.resp = Err(400, "date y type requeridos")
            ELSE /\ lastL.resp.status = 201
                 /\ txs # <<>>
                 /\ txs[Len(txs)].date = date /\ txs[Len(txs)].type = typ
                 /\ txs[Len(txs)].amount = IF parsed.ok THEN parsed.v ELSE 0

Reads == { "get_transactions", "summary", "estado", "export" }

\* every step keeps the rows there are, unchanged and in place; it adds at
\* most one, at the end, with an id above all others, and only as the insert
\* that answers 201; a step that answers a read adds none
AppendOnlyStep ==
    /\ Len(txs') >= Len(txs)
    /\ \A i \in 1..Len(txs) : txs'[i] = txs[i]
    /\ txs' # txs =>
         /\ Len(txs') = Len(txs) + 1
         /\ \A i \in 1..Len(txs) : txs'[Len(txs')].id > txs[i].id
         /\ lastL'.op = "add_transaction" /\ lastL'.resp.status = 201
    /\ (lastL' # lastL /\ lastL'.op \in Reads) => txs' = txs

UniqueIds == \A i, j \in 1..Len(txs) : i < j => txs[i].id < txs[j].id

\* C16: the ledger is append-only: rows are never changed or removed, every
\* insert adds one row whose id is above all earlier ids, so ids are unique and
\* increase in insertion order, and the reads and reports change nothing.
C16_AppendOnly == [][AppendOnlyStep]_vars /\ [](UniqueIds)

\* a full ledger of rows on two dates, read by the export
C16_Witness ==
    /\ Len(txs) = MaxTx
    /\ \E i, j \in 1..Len(txs) : txs[i].date # txs[j].date
    /\ lastL.op = "export" /\ lastL.resp.status = 200
    /\ Len(lastL.resp.sheet) = MaxTx + 1

\* r comes before q when ordered by date descending, then id descending
NewerFirst(r, q) ==
    \/ r.date # q.date /\ LexLeq(q.date, r.date)
    \/ r.date = q.date /\ r.id > q.id

QueryAnswered == lastL.op = "get_transactions"

\* C17: query(date) returns all and only the rows of exactly that date, in
\* strictly decreasing id; query() returns at most QueryLimit rows, ordered by
\* date descending then id descending, and they are the first QueryLimit rows
\* of that ordering of the whole ledger.
C17_QueryOrder ==
    QueryAnswered =>
        LET date == lastL.req.date
            rows == lastL.resp.rows
        IN  /\ lastL.resp.status = 200
            /\ Range(rows) \subseteq Range(txs)
            /\ ~Falsy(date) =>
                 /\ Range(rows) = { r \in Range(txs) : r.date = date }
                 /\ \A i, j \in 1..Len(rows) : i < j => rows[i].id > rows[j].id
            /\ Falsy(date) =>
                 /\ Len(rows) = IF Len(txs) <= QueryLimit THEN Len(txs) ELSE QueryLimit
                 /\ \A i, j \in 1..Len(rows) : i < j => NewerFirst(rows[i], rows[j])
                 /\ \A r \in Range(rows), q \in Range(txs) \ Range(rows) : NewerFirst(r, q)

\* more rows than the limit, on two dates: the unfiltered query returns
\* QueryLimit of them, a row of the later date first, and leaves out a row
C17_Witness ==
    /\ QueryAnswered /\ Falsy(lastL.req.date)
    /\ Len(txs) > QueryLimit
    /\ Len(lastL.resp.rows) = QueryLimit
    /\ lastL.resp.rows[1].date = D9
    /\ lastL.resp.rows[1].id < Len(txs)
    /\ \E r \in Range(txs) \ Range(lastL.resp.rows) : r.date = D10


(***************************************************************************)
(*                   Further properties of the accounts                    *)
(***************************************************************************)
Created(l) == l.op = "register" /\ l.resp.status = 201
LoggedIn(l) == l.op = "login" /\ l.resp.status = 200

\* the row as it would be with the confirmed flag of another
WithFlagOf(row, other) == [row EXCEPT !.confirmed = other.confirmed]

\* what a step may do to the accounts and the minted tokens: an answer that
\* is a failure, and any answer of login, comes with no change of the table,
\* a failure with no token minted; a row is added only with the 201 of
\* register, one row, whose name, email and password are not blank; a flag
\* changes only with the "newly confirmed" answer for that account, to a
\* validly signed token not older than 48 h; nothing else of a row changes
C18_Step ==
    /\ (last' # last /\ last'.resp.status >= 400) =>
          users' = users /\ minted' = minted
    /\ (last' # last /\ last'.op = "login") => users' = users
    /\ \A i \in 1..Len(users) :
          /\ i <= Len(users')
          /\ WithFlagOf(users'[i], users[i]) = users[i]
          /\ users'[i].confirmed # users[i].confirmed =>
                /\ last'.op = "confirm" /\ last'.resp = Newly
                /\ last'.uid = users[i].id
                /\ last'.signed /\ last'.age <= MAX_AGE
    /\ Len(users') # Len(users) =>
          /\ Len(users') = Len(users) + 1
          /\ Created(last')
          /\ minted' = minted \cup { last'.resp.token }
          /\ LET row == users'[Len(users')] IN
             /\ Strip(row.name) # <<>> /\ Strip(row.email) # <<>>
             /\ \A w \in AllPasswords :
                   Blank(w) => ~check_password_hash(row.password_hash, w)
    /\ minted' # minted => Created(last') \/ LoggedIn(last')

\* C18: a register answered with the validation failure or a conflict, a
\* confirm answered expired, invalid or not found, and every login leave the
\* accounts unchanged, and no failure mints a token; only a successful
\* register adds an account and only a "newly confirmed" confirm changes a
\* flag.
C18_FailuresHaveNoEffect == [][C18_Step]_vars

\* the token of an unconfirmed account refused as expired, the account as it was
C18_Witness ==
    /\ last.op = "confirm" /\ last.resp = Expired
    /\ last.token \in minted /\ ~IsSession(last.token)
    /\ Len(users) = 1 /\ ~users[1].confirmed
    /\ newly[1] = 0

\* C19: every confirmation token minted by register carries the email of a
\* stored account, and a confirm presenting a minted token that is not expired
\* is never answered not_found; that answer is given, if ever, to a token the
\* program did not mint.
C19_MintedTokensHaveAccounts ==
    /\ \A t \in minted \ SessionTokens(minted) :
          \E i \in 1..Len(users) : users[i].email = Lower(OrEmpty(t.payload.email))
    /\ (/\ last.op = "confirm" /\ last.token \in minted
        /\ last.age <= MAX_AGE) => last.resp \in { Newly, Already }
    /\ (last.op = "confirm" /\ last.resp = NotFound) => last.token \notin minted

\* the one token register minted, presented some time later and answered
\* "newly confirmed"
C19_Witness ==
    /\ last.op = "confirm" /\ last.token \in minted /\ ~IsSession(last.token)
    /\ last.age <= MAX_AGE /\ last.resp = Newly
    /\ Cardinality(minted) = 1 /\ Len(users) = 1
    /\ now > 0

SessionPresented(l) == l.op = "confirm" /\ l.token \in minted /\ IsSession(l.token)

\* C20: confirm takes a session token that is not expired as validly signed,
\* always answers it "already confirmed", never goes on to the UPDATE with it,
\* and no answer to a session token comes with a change of a confirmed flag.
C20_State ==
    /\ (SessionPresented(last) /\ last.age <= MAX_AGE) =>
          last.signed /\ last.resp = Already
    /\ \A p \in Procs : pc[p] = "conf_update" => ~IsSession(loc[p].token)

C20_FlagStep ==
    (last' # last /\ SessionPresented(last')) =>
        \A i \in 1..Len(users) : users'[i].confirmed = users[i].confirmed

C20_SessionTokenCannotActivate == [](C20_State) /\ [][C20_FlagStep]_vars

\* a session token minted at login and then presented to confirm
C20_Witness ==
    /\ SessionPresented(last) /\ last.age <= MAX_AGE
    /\ last.signed /\ last.resp = Already
    /\ last.uid = last.token.payload.uid

====
